---- MODULE Spec2Model ----
(***************************************************************************)
(* A model of the_snake.py: the Snake and Apple objects and the tick loop  *)
(* of main().  Coordinates are pixels, as in the source; the playing field *)
(* is scaled down (GRID_WIDTH x GRID_HEIGHT cells) so that the whole state *)
(* space can be explored.  One action per statement of the loop body.      *)
(***************************************************************************)
EXTENDS Integers, Sequences, FiniteSets, TLC

\* ---------------------------------------------------------------- bounds
\* Size of the field in cells.  The source derives these from the screen
\* size (640x480 // 20); the model fixes the cell counts and derives the
\* screen size, so that the screen is always a whole number of cells.
GRID_WIDTH == 2
GRID_HEIGHT == 2
\* Largest number of events one call of pygame.event.get() returns.
MaxEvents == 2

\* ------------------------------------------------------------- constants
GRID_SIZE == 20
SCREEN_WIDTH ==
    GRID_WIDTH * GRID_SIZE
SCREEN_HEIGHT ==
    GRID_HEIGHT * GRID_SIZE

UP ==
    <<0, -1>>
DOWN ==
    <<0, 1>>
LEFT ==
    <<-1, 0>>
RIGHT ==
    <<1, 0>>
Directions ==
    {UP, DOWN, LEFT, RIGHT}

\* Python's None for next_direction and last.  Like None, the empty tuple
\* is falsy and differs from every direction and every position.
None ==
    <<>>

\* main(): field_size and start_position
field_size ==
    <<GRID_WIDTH, GRID_HEIGHT>>
start_position ==
    << ((SCREEN_WIDTH \div 2) \div GRID_SIZE) * GRID_SIZE,
       ((SCREEN_HEIGHT \div 2) \div GRID_SIZE) * GRID_SIZE >>

\* randint taken as if its upper end were one further.
randintPastEnd(lo, hi) ==
    lo..(hi + 1)

\* The values randint(0, n - 1) can return.
randint(lo, hi) ==
    lo..hi

\* Every outcome of Apple.randomize_position().
RandomPositions ==
    { <<x * GRID_SIZE, y * GRID_SIZE>> :
        x \in randint(0, field_size[1] - 1), y \in randint(0, field_size[2] - 1) }

\* The events pygame.event.get() can deliver: a quit event, the four arrow
\* keys, and a key the game does not bind.
Events ==
    {"QUIT", "K_UP", "K_DOWN", "K_LEFT", "K_RIGHT", "K_SPACE"}

RECURSIVE SeqsUpTo(_, _)
SeqsUpTo(S, n) ==
    IF n = 0 THEN { <<>> }
    ELSE LET shorter == SeqsUpTo(S, n - 1)
         IN  shorter \cup { Append(s, e) : s \in { t \in shorter : Len(t) = n - 1 }, e \in S }

\* Every batch of events one poll can return.
EventBatches ==
    SeqsUpTo(Events, MaxEvents)

VARIABLES
    positions,       \* snake.positions, head first
    length,          \* snake.length
    direction,       \* snake.direction
    next_direction,  \* snake.next_direction
    last,            \* snake.last
    position,        \* snake.position
    apple,           \* apple.position
    pc,              \* the statement of main() that runs next
    batch,           \* history: the events polled in this tick (KeySpec only)
    pre,             \* history: snake and apple at the start of this tick
    moved,           \* history: snake.positions right after this tick's move()
    ate,             \* history: the growth branch was taken in this tick
    was_reset,       \* history: the reset branch was taken in this tick
    started          \* history: the loop of main() has been entered

vars ==
    <<positions, length, direction, next_direction, last, position, apple,
      pc, batch, pre, moved, ate, was_reset, started>>

snake_vars ==
    <<positions, length, direction, next_direction, last, position>>

hist_vars ==
    <<batch, pre, moved, ate, was_reset>>

Snapshot ==
    [positions |-> positions, length |-> length, direction |-> direction,
     next_direction |-> next_direction, apple |-> apple]

\* Snake.__init__(start_position), Apple.__init__(field_size), main() before
\* the loop.
Init ==
    /\ positions = <<start_position>>
    /\ length = 1
    /\ direction = RIGHT
    /\ next_direction = None
    /\ last = None
    /\ position = start_position
    /\ apple \in RandomPositions
    /\ pc = "handle_keys"
    /\ batch = <<>>
    /\ pre = [positions |-> <<start_position>>, length |-> 1, direction |-> RIGHT,
              next_direction |-> None, apple |-> apple]
    /\ moved = <<start_position>>
    /\ ate = FALSE
    /\ was_reset = FALSE
    /\ started = FALSE

\* ------------------------------------------------------------ operations
\* KeyDown that tests a key against the pending direction when there is one.
KeyDownAgainstPending(dir, nd, key) ==
    LET judged == IF nd # <<>> THEN nd ELSE dir
    IN  IF key = "K_UP" /\ judged # DOWN THEN UP
        ELSE IF key = "K_DOWN" /\ judged # UP THEN DOWN
        ELSE IF key = "K_LEFT" /\ judged # RIGHT THEN LEFT
        ELSE IF key = "K_RIGHT" /\ judged # LEFT THEN RIGHT
        ELSE nd

\* KeyDown without the tests against the current direction.
KeyDownUnguarded(dir, nd, key) ==
    IF key = "K_UP" THEN UP
    ELSE IF key = "K_DOWN" THEN DOWN
    ELSE IF key = "K_LEFT" THEN LEFT
    ELSE IF key = "K_RIGHT" THEN RIGHT
    ELSE nd

\* One iteration of the event loop of handle_keys() for a KEYDOWN event:
\* the value of next_direction after the if/elif chain.
KeyDown(dir, nd, key) ==
    IF key = "K_UP" /\ dir # DOWN THEN UP
    ELSE IF key = "K_DOWN" /\ dir # UP THEN DOWN
    ELSE IF key = "K_LEFT" /\ dir # RIGHT THEN LEFT
    ELSE IF key = "K_RIGHT" /\ dir # LEFT THEN RIGHT
    ELSE nd

\* HandleKeysLoop that notes a QUIT event and quits after the whole batch.
RECURSIVE HandleKeysLoopQuitsLate(_, _, _)
HandleKeysLoopQuitsLate(dir, nd, events) ==
    IF events = <<>> THEN [next_direction |-> nd, quit |-> FALSE]
    ELSE IF Head(events) = "QUIT"
         THEN [next_direction |-> HandleKeysLoopQuitsLate(dir, nd, Tail(events)).next_direction,
               quit |-> TRUE]
    ELSE HandleKeysLoopQuitsLate(dir, KeyDown(dir, nd, Head(events)), Tail(events))

\* handle_keys(): the for loop over the polled events.  A QUIT event raises
\* SystemExit at once, so the events after it are never looked at.
RECURSIVE HandleKeysLoop(_, _, _)
HandleKeysLoop(dir, nd, events) ==
    IF events = <<>> THEN [next_direction |-> nd, quit |-> FALSE]
    ELSE IF Head(events) = "QUIT" THEN [next_direction |-> nd, quit |-> TRUE]
    ELSE HandleKeysLoop(dir, KeyDown(dir, nd, Head(events)), Tail(events))

\* NewHead without the teleport through the walls.
NewHeadNoWrap(head, dir) ==
    <<head[1] + dir[1] * GRID_SIZE, head[2] + dir[2] * GRID_SIZE>>

\* NewHead that steps two cells at a time.
NewHeadTwoCells(head, dir) ==
    LET new_head_x == head[1] + 2 * dir[1] * GRID_SIZE
        new_head_y == head[2] + 2 * dir[2] * GRID_SIZE
        wrapped_x == IF new_head_x < 0 THEN SCREEN_WIDTH - GRID_SIZE
                     ELSE IF new_head_x >= SCREEN_WIDTH THEN 0
                     ELSE new_head_x
        wrapped_y == IF new_head_y < 0 THEN SCREEN_HEIGHT - GRID_SIZE
                     ELSE IF new_head_y >= SCREEN_HEIGHT THEN 0
                     ELSE new_head_y
    IN  <<wrapped_x, wrapped_y>>

\* NewHead with the right and bottom walls one pixel too far.
NewHeadPastWall(head, dir) ==
    LET new_head_x == head[1] + dir[1] * GRID_SIZE
        new_head_y == head[2] + dir[2] * GRID_SIZE
        wrapped_x == IF new_head_x < 0 THEN SCREEN_WIDTH - GRID_SIZE
                     ELSE IF new_head_x > SCREEN_WIDTH THEN 0
                     ELSE new_head_x
        wrapped_y == IF new_head_y < 0 THEN SCREEN_HEIGHT - GRID_SIZE
                     ELSE IF new_head_y > SCREEN_HEIGHT THEN 0
                     ELSE new_head_y
    IN  <<wrapped_x, wrapped_y>>

\* Snake.move(): the new head, with the teleport through the walls.
NewHead(head, dir) ==
    LET new_head_x == head[1] + dir[1] * GRID_SIZE
        new_head_y == head[2] + dir[2] * GRID_SIZE
        wrapped_x == IF new_head_x < 0 THEN SCREEN_WIDTH - GRID_SIZE
                     ELSE IF new_head_x >= SCREEN_WIDTH THEN 0
                     ELSE new_head_x
        wrapped_y == IF new_head_y < 0 THEN SCREEN_HEIGHT - GRID_SIZE
                     ELSE IF new_head_y >= SCREEN_HEIGHT THEN 0
                     ELSE new_head_y
    IN  <<wrapped_x, wrapped_y>>

\* MovedPositions that pops the tail as soon as the list reaches length.
MovedPositionsPopsEarly(ps, len, new_head) ==
    LET inserted == <<new_head>> \o ps
    IN  IF Len(inserted) >= len /\ Len(inserted) > 1
        THEN SubSeq(inserted, 1, Len(inserted) - 1)
        ELSE inserted

\* MovedPositions that never pops the tail.
MovedPositionsNoPop(ps, len, new_head) ==
    <<new_head>> \o ps

\* Snake.move(): insert the new head, pop the tail when the list is longer
\* than length.
MovedPositions(ps, len, new_head) ==
    LET inserted == <<new_head>> \o ps
    IN  IF Len(inserted) > len
        THEN SubSeq(inserted, 1, Len(inserted) - 1)
        ELSE inserted

\* Snake.get_head_position()
get_head_position(ps) ==
    IF ps # <<>> THEN ps[1] ELSE <<0, 0>>

\* x in list
InList(x, ps) ==
    \E i \in 1..Len(ps) : ps[i] = x

\* check_collision(snake, apple)
check_collision(ps, apple_position) ==
    get_head_position(ps) = apple_position

\* check_self_collision that compares the head with the tail segment only.
check_self_collision_tail(ps) ==
    Len(ps) >= 2 /\ get_head_position(ps) = ps[Len(ps)]

\* check_self_collision that looks for the head in the whole list.
check_self_collision_whole(ps) ==
    InList(get_head_position(ps), ps)

\* check_self_collision(snake): head_position in snake.positions[1:]
check_self_collision(ps) ==
    InList(get_head_position(ps), SubSeq(ps, 2, Len(ps)))

\* --------------------------------------------------------------- actions
\* clock.tick(SPEED); handle_keys(snake), for every batch of events the poll
\* can return.  The batch itself is not kept.
HandleKeys ==
    /\ pc = "handle_keys"
    /\ \E r \in { HandleKeysLoop(direction, next_direction, events) :
                     events \in EventBatches } :
          /\ next_direction' = r.next_direction
          /\ pc' = IF r.quit THEN "exit" ELSE "update_direction"
    /\ UNCHANGED <<positions, length, direction, last, position, apple>>
    /\ UNCHANGED hist_vars
    /\ started' = TRUE

\* The same statement, with the polled events kept in batch.
HandleKeysRecorded ==
    /\ pc = "handle_keys"
    /\ \E events \in EventBatches :
          LET r == HandleKeysLoop(direction, next_direction, events)
          IN  /\ next_direction' = r.next_direction
              /\ pc' = IF r.quit THEN "exit" ELSE "update_direction"
              /\ batch' = events
    /\ UNCHANGED <<positions, length, direction, last, position, apple>>
    /\ UNCHANGED <<pre, moved, ate, was_reset>>
    /\ started' = TRUE

\* UpdateDirection that leaves the pending direction in place.
UpdateDirectionKeepsPending ==
    /\ pc = "update_direction"
    /\ IF next_direction # None
       THEN /\ direction' = next_direction
            /\ UNCHANGED next_direction
       ELSE UNCHANGED <<direction, next_direction>>
    /\ pc' = "move"
    /\ UNCHANGED <<positions, length, last, position, apple>>
    /\ UNCHANGED hist_vars
    /\ UNCHANGED started

\* snake.update_direction()
UpdateDirection ==
    /\ pc = "update_direction"
    /\ IF next_direction # None
       THEN /\ direction' = next_direction
            /\ next_direction' = None
       ELSE UNCHANGED <<direction, next_direction>>
    /\ pc' = "move"
    /\ UNCHANGED <<positions, length, last, position, apple>>
    /\ UNCHANGED hist_vars
    /\ UNCHANGED started

\* snake.move()
Move ==
    /\ pc = "move"
    /\ LET new_head == NewHead(positions[1], direction)
       IN  /\ last' = IF positions # <<>> THEN positions[Len(positions)] ELSE None
           /\ positions' = MovedPositions(positions, length, new_head)
           /\ position' = new_head
    /\ moved' = positions'
    /\ pc' = "check_collision"
    /\ UNCHANGED <<length, direction, next_direction, apple>>
    /\ UNCHANGED <<batch, pre, ate, was_reset>>
    /\ UNCHANGED started

\* Eat that raises length by two.
EatGrowsTwice ==
    /\ pc = "check_collision"
    /\ check_collision(positions, apple)
    /\ length' = length + 2
    /\ apple' \in RandomPositions
    /\ ate' = TRUE
    /\ pc' = "resample"
    /\ UNCHANGED <<positions, direction, next_direction, last, position>>
    /\ UNCHANGED <<batch, pre, moved, was_reset>>
    /\ UNCHANGED started

\* Eat that also adds the new segment at once, where the tail was.
EatAddsSegment ==
    /\ pc = "check_collision"
    /\ check_collision(positions, apple)
    /\ length' = length + 1
    /\ positions' = Append(positions, last)
    /\ apple' \in RandomPositions
    /\ ate' = TRUE
    /\ pc' = "resample"
    /\ UNCHANGED <<direction, next_direction, last, position>>
    /\ UNCHANGED <<batch, pre, moved, was_reset>>
    /\ UNCHANGED started

\* if check_collision(snake, apple): snake.length += 1;
\* apple.randomize_position()
Eat ==
    /\ pc = "check_collision"
    /\ check_collision(positions, apple)
    /\ length' = length + 1
    /\ apple' \in RandomPositions
    /\ ate' = TRUE
    /\ pc' = "resample"
    /\ UNCHANGED <<positions, direction, next_direction, last, position>>
    /\ UNCHANGED <<batch, pre, moved, was_reset>>
    /\ UNCHANGED started

\* check_collision(snake, apple) is false: the branch is skipped
NoEat ==
    /\ pc = "check_collision"
    /\ ~ check_collision(positions, apple)
    /\ pc' = "check_self_collision"
    /\ UNCHANGED snake_vars
    /\ UNCHANGED apple
    /\ UNCHANGED hist_vars
    /\ UNCHANGED started

\* while apple.position in snake.positions: apple.randomize_position()
Resample ==
    /\ pc = "resample"
    /\ InList(apple, positions)
    /\ apple' \in RandomPositions
    /\ UNCHANGED pc
    /\ UNCHANGED snake_vars
    /\ UNCHANGED hist_vars
    /\ UNCHANGED started

\* ResampleDone without the loop: the first sample is kept.
ResampleDoneUnchecked ==
    /\ pc = "resample"
    /\ pc' = "check_self_collision"
    /\ UNCHANGED snake_vars
    /\ UNCHANGED apple
    /\ UNCHANGED hist_vars
    /\ UNCHANGED started

\* the while loop ends: apple.position is not in snake.positions
ResampleDone ==
    /\ pc = "resample"
    /\ ~ InList(apple, positions)
    /\ pc' = "check_self_collision"
    /\ UNCHANGED snake_vars
    /\ UNCHANGED apple
    /\ UNCHANGED hist_vars
    /\ UNCHANGED started

\* SelfCollision whose reset leaves the segment list empty.
SelfCollisionEmpties ==
    /\ pc = "check_self_collision"
    /\ check_self_collision(positions)
    /\ length' = 1
    /\ positions' = <<>>
    /\ direction' = RIGHT
    /\ next_direction' = None
    /\ position' = start_position
    /\ last' = None
    /\ apple' \in RandomPositions
    /\ was_reset' = TRUE
    /\ pc' = "draw"
    /\ UNCHANGED <<batch, pre, moved, ate>>
    /\ UNCHANGED started

\* if check_self_collision(snake): snake.reset(start_position);
\* apple.randomize_position()
SelfCollision ==
    /\ pc = "check_self_collision"
    /\ check_self_collision(positions)
    /\ length' = 1
    /\ positions' = <<start_position>>
    /\ direction' = RIGHT
    /\ next_direction' = None
    /\ position' = start_position
    /\ last' = None
    /\ apple' \in RandomPositions
    /\ was_reset' = TRUE
    /\ pc' = "draw"
    /\ UNCHANGED <<batch, pre, moved, ate>>
    /\ UNCHANGED started

\* check_self_collision(snake) is false: the branch is skipped
NoSelfCollision ==
    /\ pc = "check_self_collision"
    /\ ~ check_self_collision(positions)
    /\ pc' = "draw"
    /\ UNCHANGED snake_vars
    /\ UNCHANGED apple
    /\ UNCHANGED hist_vars
    /\ UNCHANGED started

\* screen.fill(...); apple.draw(); snake.draw(); pygame.display.update():
\* no game state changes; the loop goes round.  The history variables are
\* restarted for the next tick.
Draw ==
    /\ pc = "draw"
    /\ pc' = "handle_keys"
    /\ UNCHANGED snake_vars
    /\ UNCHANGED apple
    /\ batch' = <<>>
    /\ pre' = Snapshot
    /\ moved' = positions
    /\ ate' = FALSE
    /\ was_reset' = FALSE
    /\ UNCHANGED started

Next ==
    \/ HandleKeys
    \/ UpdateDirection
    \/ Move
    \/ Eat
    \/ NoEat
    \/ Resample
    \/ ResampleDone
    \/ SelfCollision
    \/ NoSelfCollision
    \/ Draw

Spec ==
    Init /\ [][Next]_vars

TypeOK ==
    /\ pc \in {"handle_keys", "update_direction", "move", "check_collision",
               "resample", "check_self_collision", "draw", "exit"}
    /\ direction \in Directions
    /\ next_direction \in Directions \cup {None}
    /\ apple \in RandomPositions
    /\ length \in Nat

\* The ticks in which the head does not reach the apple, with the polled
\* events kept: the key handling of every tick of a one-segment snake.
KeyNext ==
    \/ HandleKeysRecorded
    \/ UpdateDirection
    \/ Move
    \/ NoEat
    \/ NoSelfCollision
    \/ Draw

KeySpec ==
    Init /\ [][KeyNext]_vars

\* ------------------------------------------------------------ vocabulary
\* The direction an arrow key asks for (None for any other event).
KeyDirection(key) ==
    IF key = "K_UP" THEN UP
    ELSE IF key = "K_DOWN" THEN DOWN
    ELSE IF key = "K_LEFT" THEN LEFT
    ELSE IF key = "K_RIGHT" THEN RIGHT
    ELSE None

Opposite(dir) ==
    <<0 - dir[1], 0 - dir[2]>>

ArrowKeys ==
    {"K_UP", "K_DOWN", "K_LEFT", "K_RIGHT"}

\* The arrow keys of a batch that ask for the reverse of direction dir.
IsReversal(key, dir) ==
    key \in ArrowKeys /\ KeyDirection(key) = Opposite(dir)

\* ---------------------------------------------------------------- claims
\* C1: reversal is never applied.  After the key polling of a tick, a batch
\* whose arrow keys all ask for the opposite of the current direction has
\* left direction and next_direction as they were; after update_direction(),
\* a batch that ends with a key for another direction d gives direction = d;
\* and the direction after update_direction() is never the opposite of the
\* direction at the start of the tick.
C1_NoReversal ==
    /\ (pc = "update_direction" /\ batch # <<>>
          /\ \A i \in 1..Len(batch) :
                batch[i] \in ArrowKeys => IsReversal(batch[i], pre.direction))
       => (direction = pre.direction /\ next_direction = pre.next_direction)
    /\ (pc = "move" /\ batch # <<>>
          /\ batch[Len(batch)] \in ArrowKeys
          /\ ~ IsReversal(batch[Len(batch)], pre.direction))
       => direction = KeyDirection(batch[Len(batch)])
    /\ pc = "move" => direction # Opposite(pre.direction)

\* A reversing key was polled (after an accepted one) and the commit is done.
C1_Witness ==
    /\ pc = "move"
    /\ Len(batch) = 2
    /\ batch[1] \in ArrowKeys /\ ~ IsReversal(batch[1], pre.direction)
    /\ IsReversal(batch[2], pre.direction)
    /\ pre.direction # RIGHT
    /\ direction # pre.direction

\* The cells of a segment list.
Segments(ps) ==
    { ps[i] : i \in 1..Len(ps) }

\* The head of ps lies on one of its other segments.
HeadOnBody(ps) ==
    \E i \in 2..Len(ps) : ps[i] = ps[1]

\* C2: move() puts the new head at head + direction * GRID_SIZE, taken modulo
\* SCREEN_WIDTH on x and modulo SCREEN_HEIGHT on y; leaving the right edge
\* re-enters at x = 0 in the same row, leaving the left edge re-enters at
\* x = SCREEN_WIDTH - GRID_SIZE, and the same for top and bottom.
C2_MoveWraps ==
    pc = "check_collision" =>
        LET head == pre.positions[1]
            new == positions[1]
        IN  /\ new[1] = (head[1] + direction[1] * GRID_SIZE) % SCREEN_WIDTH
            /\ new[2] = (head[2] + direction[2] * GRID_SIZE) % SCREEN_HEIGHT
            /\ (head[1] = SCREEN_WIDTH - GRID_SIZE /\ direction = RIGHT)
                   => new = <<0, head[2]>>
            /\ (head[1] = 0 /\ direction = LEFT)
                   => new = <<SCREEN_WIDTH - GRID_SIZE, head[2]>>
            /\ (head[2] = SCREEN_HEIGHT - GRID_SIZE /\ direction = DOWN)
                   => new = <<head[1], 0>>
            /\ (head[2] = 0 /\ direction = UP)
                   => new = <<head[1], SCREEN_HEIGHT - GRID_SIZE>>

\* A move has taken the head through the bottom wall.
C2_Witness ==
    /\ pc = "check_collision"
    /\ pre.positions[1][2] = SCREEN_HEIGHT - GRID_SIZE
    /\ direction = DOWN
    /\ positions[1][2] = 0

\* C3: the snake is reset in a tick exactly when, after the tick's move, the
\* head lies on another segment; and after a reset the snake is in its
\* initial state at the end of the tick.
C3_ResetIffSelfCollision ==
    pc = "draw" =>
        /\ was_reset <=> HeadOnBody(moved)
        /\ was_reset =>
              /\ positions = <<start_position>>
              /\ direction = RIGHT
              /\ next_direction = None
              /\ length = 1

\* A snake that was longer and heading elsewhere has been reset.
C3_Witness ==
    /\ pc = "draw"
    /\ was_reset
    /\ HeadOnBody(moved)
    /\ pre.length > 1
    /\ pre.direction # RIGHT

\* C4: right after the relocation that follows eating, the apple is on no
\* segment of the snake.
C4_EatenAppleOffSnake ==
    (pc = "check_self_collision" /\ ate) => apple \notin Segments(positions)

\* The apple has been relocated after a snake of several segments ate it.
C4_Witness ==
    /\ pc = "check_self_collision"
    /\ ate
    /\ Len(positions) >= 2
    /\ apple # pre.apple

\* C5: right after the relocation that follows a self-collision reset, the
\* apple is on no segment of the reset snake, that is, not on start_position.
C5_ResetAppleOffSnake ==
    (pc = "draw" /\ was_reset) =>
        (apple \notin Segments(positions) /\ apple # start_position)

\* C6: no tick both eats the apple and finds a self-collision: after a move
\* the head is never on the apple and on the body at once, the self-collision
\* check that follows the growth branch is false, and no tick ends with both
\* branches taken.
C6_EatExcludesSelfCollision ==
    /\ pc = "check_collision" => ~ (positions[1] = apple /\ HeadOnBody(positions))
    /\ (pc = "check_self_collision" /\ ate) => ~ HeadOnBody(positions)
    /\ pc = "draw" => ~ (ate /\ was_reset)

\* A snake of three segments or more has eaten and finished the tick.
C6_Witness ==
    /\ pc = "draw"
    /\ ate
    /\ ~ was_reset
    /\ Len(positions) >= 3

\* C7: whenever the apple has been eaten and the re-sampling loop runs, the
\* snake leaves at least one cell free, so that the loop can exit.
C7_FreeCellWhenEaten ==
    pc = "resample" => Segments(positions) # RandomPositions

\* C8: the number of segments never exceeds length; a move adds one segment
\* while the count is below length and keeps the count equal to length
\* otherwise.
C8_CountAtMostLength ==
    /\ Len(positions) <= length
    /\ pc = "check_collision" =>
          Len(positions) = IF Len(pre.positions) < length
                           THEN Len(pre.positions) + 1
                           ELSE length

\* A move has added a segment to a snake of two or more segments.
C8_Witness ==
    /\ pc = "check_collision"
    /\ Len(pre.positions) >= 2
    /\ Len(positions) = Len(pre.positions) + 1
    /\ Len(positions) = length

\* The cell one step to the right of the start cell.
RightOfStart ==
    <<(start_position[1] + GRID_SIZE) % SCREEN_WIDTH, start_position[2]>>

\* C9: in the tick that eats the apple, length grows by exactly 1 and the
\* segment list stays the one the move produced; the added segment appears at
\* the next move, which keeps the tail.  From the initial state with the
\* apple one cell to the right, one tick ends with the head on the apple's
\* old cell, length 2, one segment and no reset.
C9_GrowthShowsAtNextMove ==
    /\ (ate /\ pc \in {"resample", "check_self_collision", "draw"}) =>
          /\ length = pre.length + 1
          /\ positions = moved
          /\ positions[1] = pre.apple
    /\ (pc = "check_collision" /\ Len(pre.positions) < pre.length) =>
          positions = <<positions[1]>> \o pre.positions
    /\ (pc = "draw" /\ direction = RIGHT /\ pre.direction = RIGHT
          /\ pre.positions = <<start_position>> /\ pre.length = 1
          /\ pre.apple = RightOfStart) =>
          /\ ate /\ ~ was_reset
          /\ positions = <<RightOfStart>>
          /\ length = 2

\* The first tick from the start cell has eaten the apple to its right.
C9_Witness ==
    /\ pc = "draw"
    /\ ate
    /\ pre.positions = <<start_position>>
    /\ pre.length = 1
    /\ pre.apple = RightOfStart
    /\ positions = <<RightOfStart>>
    /\ length = 2

\* The arrow keys of batch b that handle_keys accepts when the current
\* direction is dir.
AcceptedKeys(b, dir) ==
    SelectSeq(b, LAMBDA k : k \in ArrowKeys /\ ~ IsReversal(k, dir))

\* C10: within a tick the order is poll, commit, move.  After the commit
\* next_direction is cleared; a direction accepted in the poll is the current
\* direction when the move runs, and the head moves one cell that way in the
\* same tick; when no key was accepted the direction is the one the tick
\* began with.
C10_PollCommitMove ==
    LET acc == AcceptedKeys(batch, pre.direction)
    IN  /\ pc \in {"move", "check_collision"} =>
              /\ next_direction = None
              /\ acc # <<>> => \E i \in 1..Len(acc) : direction = KeyDirection(acc[i])
              /\ acc = <<>> => direction = pre.direction
        /\ pc = "check_collision" =>
              /\ positions[1][1] =
                    (pre.positions[1][1] + direction[1] * GRID_SIZE) % SCREEN_WIDTH
              /\ positions[1][2] =
                    (pre.positions[1][2] + direction[2] * GRID_SIZE) % SCREEN_HEIGHT

\* A turn accepted in this tick's poll has moved the head in this tick.
C10_Witness ==
    /\ pc = "check_collision"
    /\ AcceptedKeys(batch, pre.direction) # <<>>
    /\ direction # pre.direction
    /\ next_direction = None
    /\ positions[1] # pre.positions[1]

\* A position lies within the field and on the grid.
OnGrid(p) ==
    /\ 0 <= p[1] /\ p[1] <= SCREEN_WIDTH - GRID_SIZE
    /\ 0 <= p[2] /\ p[2] <= SCREEN_HEIGHT - GRID_SIZE
    /\ p[1] % GRID_SIZE = 0
    /\ p[2] % GRID_SIZE = 0

\* C11: in every state the apple lies within the field and on the grid:
\* 0 <= x <= SCREEN_WIDTH - GRID_SIZE, 0 <= y <= SCREEN_HEIGHT - GRID_SIZE,
\* both multiples of GRID_SIZE.
C11_AppleOnGrid ==
    /\ Len(apple) = 2
    /\ OnGrid(apple)

\* The apple has been relocated to the last cell of the last row.
C11_Witness ==
    /\ started
    /\ apple # pre.apple
    /\ apple = <<SCREEN_WIDTH - GRID_SIZE, SCREEN_HEIGHT - GRID_SIZE>>

\* C12: at game start, before the first tick, the apple is not on the cell of
\* the snake: it differs from start_position.
C12_InitialAppleOffSnake ==
    ~ started => (apple \notin Segments(positions) /\ apple # start_position)

\* C13: in every state every segment of the snake lies within the field and
\* on the grid.
C13_SegmentsOnGrid ==
    \A i \in 1..Len(positions) :
        /\ Len(positions[i]) = 2
        /\ OnGrid(positions[i])
        /\ positions[i][1] < SCREEN_WIDTH
        /\ positions[i][2] < SCREEN_HEIGHT

\* A snake of several segments has just gone through the left wall.
C13_Witness ==
    /\ pc = "check_collision"
    /\ Len(positions) >= 2
    /\ pre.positions[1][1] = 0
    /\ direction = LEFT
    /\ positions[1][1] = SCREEN_WIDTH - GRID_SIZE

\* The cell one grid step from p in direction dir, across the walls.
StepFrom(p, dir) ==
    <<(p[1] + dir[1] * GRID_SIZE) % SCREEN_WIDTH,
      (p[2] + dir[2] * GRID_SIZE) % SCREEN_HEIGHT>>

\* The directions that lead from cell q to cell p in one grid step.
StepsBetween(q, p) ==
    { dir \in Directions : StepFrom(q, dir) = p }

C15_NeverEmpty ==
    /\ Len(positions) >= 1
    /\ get_head_position(positions) = positions[1]
    /\ pc = "check_collision" =>
          (last # None /\ last = pre.positions[Len(pre.positions)])

\* A reset has just put the snake back to one segment.
C15_Witness ==
    /\ pc = "draw"
    /\ was_reset
    /\ Len(moved) >= 3
    /\ Len(positions) = 1

\* C16: from the end of one tick to the end of the next, length stays the
\* same, grows by exactly 1 (the apple was eaten in the tick), or is 1 after a
\* reset in the tick; without a reset it never goes down.
C16_LengthPerTick ==
    pc = "draw" =>
        /\ \/ was_reset /\ length = 1
           \/ ~ was_reset /\ ate /\ length = pre.length + 1
           \/ ~ was_reset /\ ~ ate /\ length = pre.length
        /\ ~ was_reset => length >= pre.length

\* A tick has ended with length one more than a length of two or more.
C16_Witness ==
    /\ pc = "draw"
    /\ ate
    /\ pre.length >= 2
    /\ length = pre.length + 1

\* The events of batch b that come before its first QUIT event.
BeforeQuit(b) ==
    IF \E i \in 1..Len(b) : b[i] = "QUIT"
    THEN SubSeq(b, 1, (CHOOSE i \in 1..Len(b) :
                          b[i] = "QUIT" /\ \A j \in 1..(i - 1) : b[j] # "QUIT") - 1)
    ELSE b

\* The direction left pending by the keys ks when the current one is dir.
PendingAfter(ks, dir) ==
    LET acc == AcceptedKeys(ks, dir)
    IN  IF acc # <<>> THEN KeyDirection(acc[Len(acc)]) ELSE None

\* C17: the loop stops only on a quit event.  A state other than the exit
\* always has a next step; the exit is reached exactly when the polled batch
\* holds a QUIT event, in that tick and before commit and move: snake and
\* apple are as the tick found them, except for the direction left pending by
\* the keys polled before the QUIT; the events after it are not processed.
C17_QuitStopsLoop ==
    /\ pc # "exit" => ENABLED Next
    /\ pc \notin {"handle_keys", "exit"} => \A i \in 1..Len(batch) : batch[i] # "QUIT"
    /\ pc = "exit" =>
          /\ \E i \in 1..Len(batch) : batch[i] = "QUIT"
          /\ positions = pre.positions
          /\ length = pre.length
          /\ direction = pre.direction
          /\ apple = pre.apple
          /\ moved = pre.positions
          /\ next_direction = PendingAfter(BeforeQuit(batch), pre.direction)

\* The loop has stopped on a QUIT event that an accepted arrow key follows.
C17_Witness ==
    /\ pc = "exit"
    /\ Len(batch) = 2
    /\ batch[1] = "QUIT"
    /\ batch[2] \in ArrowKeys
    /\ ~ IsReversal(batch[2], pre.direction)
    /\ next_direction = None

\* C18: at the end of every tick the segments of the snake are pairwise
\* distinct.
C18_SegmentsDistinct ==
    pc = "draw" =>
        \A i, j \in 1..Len(positions) : i # j => positions[i] # positions[j]

\* A tick has ended with a snake of three segments or more.
C18_Witness ==
    /\ pc = "draw"
    /\ ~ was_reset
    /\ Len(positions) >= 3
    /\ Cardinality(Segments(positions)) = Len(positions)

\* C19: at the end of every tick the segment count is length or length - 1,
\* and it is length - 1 exactly when the apple was eaten in that tick.
C19_CountWithinOneOfLength ==
    pc = "draw" =>
        /\ Len(positions) \in {length, length - 1}
        /\ (Len(positions) = length - 1) <=> ate

\* The apple has been eaten in two ticks in a row.
C19_Witness ==
    /\ pc = "draw"
    /\ ate
    /\ Len(pre.positions) = pre.length - 1
    /\ Len(positions) = length - 1

\* C20: when several arrow keys are polled in one tick, each is judged
\* against the direction the tick began with, and the direction applied in
\* the tick is that of the last key of the batch that is not its opposite, or
\* the direction the tick began with when there is no such key.
C20_LastAcceptedKeyWins ==
    pc \in {"move", "check_collision"} =>
        LET acc == AcceptedKeys(batch, pre.direction)
        IN  direction = IF acc # <<>>
                        THEN KeyDirection(acc[Len(acc)])
                        ELSE pre.direction

\* Two keys were polled: a turn, then the reverse of that turn, which is not
\* the reverse of the direction the tick began with and so is applied.
C20_Witness ==
    /\ pc = "move"
    /\ Len(batch) = 2
    /\ batch[1] \in ArrowKeys
    /\ batch[2] \in ArrowKeys
    /\ ~ IsReversal(batch[1], pre.direction)
    /\ KeyDirection(batch[2]) = Opposite(KeyDirection(batch[1]))
    /\ direction = KeyDirection(batch[2])

====
